---- MODULE Spec2Model ----
(***************************************************************************)
(* EAPCET college predictor: the suitability scorer, the risk classifier,  *)
(* the recommendation engine (logic/college_predictor.py and the copy in   *)
(* app.py) and the aspiration lookup, over an immutable cutoff table.      *)
(*                                                                         *)
(* Scores ("Suitability %") are kept in hundredths of a percent, so 95.0   *)
(* is 9500, 57.5 is 5750 and the sentinel 0.0 is 0.  Intermediate values   *)
(* of calculate_suitability are kept as exact numerators over max_gap.     *)
(***************************************************************************)
EXTENDS Integers, Naturals, Sequences, FiniteSets, TLC

VARIABLES df, op, args, ret, prev

vars == <<df, op, args, ret, prev>>

-----------------------------------------------------------------------------
(* Bounds of the model *)

\* longest cutoff table drawn in Init
MaxRows == 3
\* largest top_n handed to college_predictor.recommend_colleges
MaxTopN == 2
\* number of evenly spaced rank gaps fed to calculate_suitability
MaxGapSteps == 13

-----------------------------------------------------------------------------
(* Program constants *)

max_gap == 60000
RealisticGap == 30000
AmbitiousGap == 2000
ModerateGap == 10000
SliderMin == 5
SliderMax == 20

NoRegion == "NON-LOCAL"
AllDistricts == "All"
None == [none |-> TRUE]

Min(a, b) == IF a < b THEN a ELSE b
Max(a, b) == IF a > b THEN a ELSE b

-----------------------------------------------------------------------------
(* suitability.py *)

\* Rank gaps at which 85 * (1 - gap / 60000) + 15 lies exactly halfway
\* between two hundredths (gap = 60 mod 120, outside the clamp) and the
\* IEEE-754 double computed by the code rounds UP under Python's round(x, 2);
\* at every other such gap the double lies below the midpoint and rounds down.
round_half_up_gaps == {
    3780, 3900, 4020, 4140, 4260, 4380, 4860, 4980, 5100, 5220, 5340, 5460,
    5940, 6060, 6180, 6300, 6420, 7020, 7140, 7260, 7380, 7500, 8100, 8220,
    8340, 8460, 9180, 9300, 9420, 10260, 10380, 11340, 11460, 12300, 12420, 12900,
    13020, 13140, 13260, 13380, 13500, 13980, 14100, 14220, 14340, 14460, 14940, 15180,
    15300, 15420, 16020, 16260, 16380, 16980, 17100, 17220, 17340, 17460, 17700, 17940,
    18060, 18180, 18300, 18420, 18540, 18780, 19020, 19140, 19260, 19380, 19500, 19620,
    19860, 20100, 20220, 20340, 20460, 20700, 20940, 21180, 21300, 21420, 21780, 22020,
    22260, 22380, 22860, 23100, 23340, 23460, 23940, 24180, 24420, 25020, 25260, 28140,
    28260, 28380, 28740, 28860, 28980, 29220, 29340, 29460, 29820, 29940, 30300, 30420,
    30900, 31380, 31500, 31980, 33780, 33900, 34020, 34140, 34260, 34380, 34500, 34620,
    34740, 34860, 34980, 35100, 35220, 35340, 35460, 35700, 35820, 35940, 36180, 36300,
    36420, 36780, 36900, 37260, 37380, 37500, 37980, 38220, 38340, 38460, 39300, 39420,
    41340, 41460, 41580, 41700, 41820, 41940, 42060, 42180, 42300, 42420, 42780, 42900,
    43020, 43140, 43260, 43380, 43500, 43860, 43980, 44100, 44220, 44340, 44460, 44940,
    45180, 45300, 45420, 46260, 46380, 47340, 47460, 48780, 48900, 49020, 49140, 49260,
    49380, 49500, 49620, 49740, 49860, 49980, 50100, 50220, 50340, 50460, 50580, 50700,
    50820, 50940, 51060, 51180, 51300, 51420, 51660, 51780, 51900, 52380, 52740, 52860,
    52980, 53460, 56340, 56460, 56580, 56700, 56820, 56940, 57060, 57180, 57300, 57420,
    57540, 57660, 57780, 57900, 58020, 58140, 58260, 58380, 58620, 58740, 58860, 58980,
    59100, 59220, 59340, 59460, 59580, 59700, 59820, 59940
    }

\* round(x, 2) of x = num / max_gap, in hundredths
round2(num, rank_gap) ==
    LET q == (num * 100) \div max_gap
        r == (num * 100) % max_gap
    IN  IF 2 * r > max_gap THEN q + 1
        ELSE IF 2 * r < max_gap THEN q
        ELSE IF rank_gap \in round_half_up_gaps THEN q + 1 ELSE q

\* variant: the final clamp to [5, 95] left out
calculate_suitability_unclamped(user_rank, cutoff_rank) ==
    LET rank_gap == cutoff_rank - user_rank
        gap_ratio == Min(rank_gap, max_gap)
        suitability == 85 * (max_gap - gap_ratio) + 15 * max_gap
    IN  IF rank_gap < 0 THEN 0 ELSE round2(suitability, rank_gap)

\* variant: 85 * gap_ratio + 15, the score rising with the gap
calculate_suitability_rising(user_rank, cutoff_rank) ==
    LET rank_gap == cutoff_rank - user_rank
        gap_ratio == Min(rank_gap, max_gap)
        suitability == 85 * gap_ratio + 15 * max_gap
        clamped == Min(Max(suitability, 5 * max_gap), 95 * max_gap)
    IN  IF rank_gap < 0 THEN 0 ELSE round2(clamped, rank_gap)

calculate_suitability(user_rank, cutoff_rank) ==
    LET rank_gap == cutoff_rank - user_rank
        \* gap_ratio = min(rank_gap / max_gap, 1), as a numerator over max_gap
        gap_ratio == Min(rank_gap, max_gap)
        \* suitability = 85 * (1 - gap_ratio) + 15, as a numerator over max_gap
        suitability == 85 * (max_gap - gap_ratio) + 15 * max_gap
        clamped == Min(Max(suitability, 5 * max_gap), 95 * max_gap)
    IN  IF rank_gap < 0 THEN 0 ELSE round2(clamped, rank_gap)

\* variant: strict comparisons at both thresholds
classify_risk_strict(rank_gap) ==
    IF rank_gap < AmbitiousGap THEN "Ambitious"
    ELSE IF rank_gap < ModerateGap THEN "Moderate"
    ELSE "Safe"

classify_risk(rank_gap) ==
    IF rank_gap <= AmbitiousGap THEN "Ambitious"
    ELSE IF rank_gap <= ModerateGap THEN "Moderate"
    ELSE "Safe"

-----------------------------------------------------------------------------
(* The cutoff table: one row per historical allotment *)

Row(name, branch, dist, reg, cat, gen, cutoff) ==
    [name |-> name, branch_code |-> branch, DIST |-> dist, A_REG |-> reg,
     category |-> cat, gender |-> gen, cutoff_rank |-> cutoff]

\* rows the tables of the model are built from
RowPool == {
    Row("X", "CSE", "D1", "AU",  "OC", "F", 25000),
    Row("X", "CSE", "D2", "SVU", "OC", "F", 23000),
    Row("Y", "ECE", "D1", "AU",  "OC", "F", 20000),
    Row("Y", "CSE", "D1", "AU",  "OC", "F", 50000),
    Row("X", "ECE", "D1", "SVU", "OC", "F", 50001),
    Row("Y", "ECE", "D2", "AU",  "BC", "F", 22000),
    Row("X", "CSE", "D1", "AU",  "OC", "M", 24000) }

Tables == UNION { [1..n -> RowPool] : n \in 0..MaxRows }

UserRanks  == {20000, 26000}
Categories == {"OC", "BC"}
Genders    == {"F", "M"}
Regions    == {"AU", "SVU", NoRegion}
Districts  == {AllDistricts, "D1"}
Names      == {"X", "Y"}
Branches   == {"CSE", "ECE"}

\* a DataFrame keeps each row's index label through filtering and sorting
with_index(table) == [i \in 1..Len(table) |-> [idx |-> i - 1] @@ table[i]]

column(table, col) == { table[i][col] : i \in 1..Len(table) }

-----------------------------------------------------------------------------
(* college_predictor.py: recommend_colleges *)

\* variant: the cutoff_rank >= user_rank condition left out of the mask
eligibility_no_rank(r, user_rank, user_category, user_gender) ==
    /\ r.category = user_category
    /\ r.gender = user_gender

eligibility(r, user_rank, user_category, user_gender) ==
    /\ r.category = user_category
    /\ r.gender = user_gender
    /\ r.cutoff_rank >= user_rank

\* variant: the region filter left out
region_filter_off(eligible, user_region) == eligible

region_filter(eligible, user_region) ==
    IF user_region # NoRegion
    THEN SelectSeq(eligible, LAMBDA r : r.A_REG = user_region)
    ELSE eligible

district_filter(eligible, preferred_district) ==
    IF preferred_district # AllDistricts
    THEN SelectSeq(eligible, LAMBDA r : r.DIST = preferred_district)
    ELSE eligible

with_rank_gap(eligible, user_rank) ==
    [i \in 1..Len(eligible) |->
        [rank_gap |-> eligible[i].cutoff_rank - user_rank] @@ eligible[i]]

\* variant: the rank_gap <= 30000 filter left out
realistic_off(eligible) == eligible

realistic(eligible) ==
    SelectSeq(eligible, LAMBDA r : r.rank_gap <= RealisticGap)

with_suitability(eligible, user_rank) ==
    [i \in 1..Len(eligible) |->
        [Suitability |-> calculate_suitability(user_rank, eligible[i].cutoff_rank)]
            @@ eligible[i]]

with_chance(eligible) ==
    [i \in 1..Len(eligible) |->
        [Chance |-> classify_risk(eligible[i].rank_gap)] @@ eligible[i]]

\* the scored rows both copies of recommend_colleges sort: << >> stands for
\* the empty DataFrame either early return hands back
scored_rows(table, user_rank, user_category, user_gender, user_region, preferred_district) ==
    LET masked == SelectSeq(with_index(table),
                     LAMBDA r : eligibility(r, user_rank, user_category, user_gender))
        local  == district_filter(region_filter(masked, user_region),
                                  preferred_district)
        kept   == realistic(with_rank_gap(local, user_rank))
    IN  IF local = << >> THEN << >>
        ELSE IF kept = << >> THEN << >>
        ELSE with_chance(with_suitability(kept, user_rank))

\* variant: .head(top_n) left out
head_all(s, n) == s

head(s, n) == SubSeq(s, 1, Min(n, Len(s)))

index_orders(n) ==
    { p \in [1..n -> 1..n] : \A i, j \in 1..n : i # j => p[i] # p[j] }

\* variant: sort_values left out, the rows stay in table order
sort_by_suitability_off(s) == { s }

\* sort_values(by=["Suitability %"], ascending=False) with the default
\* kind="quicksort": the sort is not stable, so rows of equal score come out
\* in any order the build's argsort produces
sort_by_suitability(s) ==
    { [i \in 1..Len(s) |-> s[p[i]]] : p \in
        { q \in index_orders(Len(s)) :
            \A i \in 1..Len(s) - 1 : s[q[i]].Suitability >= s[q[i + 1]].Suitability } }

\* the set of DataFrames recommend_colleges can return
recommend_colleges(table, user_rank, user_category, user_gender, user_region, preferred_district, top_n) ==
    UNION { { head(s, top_n) : s \in sort_by_suitability(eligible) } :
            eligible \in { scored_rows(table, user_rank, user_category,
                                       user_gender, user_region,
                                       preferred_district) } }

-----------------------------------------------------------------------------
(* app.py: recommend_colleges *)

\* key order of sort_values(by=["Suitability %", "rank_gap"],
\* ascending=[False, True])
sorts_before(a, b) ==
    \/ a.Suitability > b.Suitability
    \/ a.Suitability = b.Suitability /\ a.rank_gap < b.rank_gap

RECURSIVE lexsort(_)
\* a sort on several keys is pandas' lexsort, which is stable
lexsort(s) ==
    IF s = << >> THEN << >>
    ELSE LET sorted == lexsort(SubSeq(s, 1, Len(s) - 1))
             x == s[Len(s)]
             p == Cardinality({ i \in 1..Len(sorted) : ~ sorts_before(x, sorted[i]) })
         IN  SubSeq(sorted, 1, p) \o << x >> \o SubSeq(sorted, p + 1, Len(sorted))

\* result[[...six columns...]] followed by reset_index(drop=True)
display_columns(result) ==
    [i \in 1..Len(result) |->
        [name |-> result[i].name, branch_code |-> result[i].branch_code,
         DIST |-> result[i].DIST, cutoff_rank |-> result[i].cutoff_rank,
         Suitability |-> result[i].Suitability,
         CollegeType |-> result[i].Chance]]

app_recommend_colleges(table, user_rank, user_category, user_gender, user_region, preferred_district, top_n) ==
    LET eligible == scored_rows(table, user_rank, user_category, user_gender,
                                user_region, preferred_district)
    IN  display_columns(head(lexsort(eligible), top_n))

-----------------------------------------------------------------------------
(* college_predictor.py: check_aspiration_college *)

aspiration_match(r, college_name, branch_code, user_category, user_gender) ==
    /\ r.name = college_name
    /\ r.branch_code = branch_code
    /\ r.category = user_category
    /\ r.gender = user_gender

\* variant: the gap clamped at 0 as check_specific_college does for the label
check_aspiration_college_clamped(table, college_name, branch_code, user_rank, user_category, user_gender) ==
    LET check_df == SelectSeq(table, LAMBDA r :
                        aspiration_match(r, college_name, branch_code,
                                         user_category, user_gender))
        cutoff == check_df[1].cutoff_rank
        gap == Max(cutoff - user_rank, 0)
    IN  IF check_df = << >> THEN None
        ELSE [cutoff |-> cutoff, rank_gap |-> gap]

check_aspiration_college(table, college_name, branch_code, user_rank, user_category, user_gender) ==
    LET check_df == SelectSeq(table, LAMBDA r :
                        aspiration_match(r, college_name, branch_code,
                                         user_category, user_gender))
        cutoff == check_df[1].cutoff_rank
        gap == cutoff - user_rank
    IN  IF check_df = << >> THEN None
        ELSE [cutoff |-> cutoff, rank_gap |-> gap]

(* app.py: check_specific_college *)

check_specific_college(table, college_name, branch, user_rank, user_category, user_gender, user_region) ==
    LET matched == SelectSeq(table, LAMBDA r :
                        aspiration_match(r, college_name, branch,
                                         user_category, user_gender))
        filtered == region_filter(matched, user_region)
        cutoff == filtered[1].cutoff_rank
        rank_gap == cutoff - user_rank
    IN  IF filtered = << >> THEN None
        ELSE [College |-> college_name, Branch |-> branch,
              District |-> filtered[1].DIST, Cutoff |-> cutoff,
              YourRank |-> user_rank,
              Suitability |-> IF rank_gap < 0 THEN 800
                              ELSE calculate_suitability(user_rank, cutoff),
              Assessment |-> IF rank_gap < 0 THEN "VeryLow" ELSE "Possible",
              CollegeType |-> classify_risk(Max(rank_gap, 0))]

-----------------------------------------------------------------------------
(* State machine: the table is loaded once and never changes; a request   *)
(* is one call, whose arguments and result are discarded before the next *)

NoArgs == [none |-> TRUE]

Init ==
    /\ df \in Tables
    /\ op = "idle"
    /\ args = NoArgs
    /\ ret = None
    /\ prev = None

\* college_predictor.recommend_colleges(df, ...)
RecommendColleges ==
    \E user_rank \in UserRanks, user_category \in Categories,
       user_gender \in Genders, user_region \in Regions,
       preferred_district \in Districts, top_n \in 1..MaxTopN :
        /\ op = "idle"
        /\ op' = "recommend_colleges"
        /\ args' = [user_rank |-> user_rank, user_category |-> user_category,
                    user_gender |-> user_gender, user_region |-> user_region,
                    preferred_district |-> preferred_district, top_n |-> top_n]
        /\ ret' \in recommend_colleges(df, user_rank, user_category, user_gender,
                                        user_region, preferred_district, top_n)
        /\ UNCHANGED <<df, prev>>

\* app.py: the sidebar widgets offer the table's own categories, genders and
\* districts, the three regions, and a top_n between SliderMin and SliderMax;
\* the button handler calls recommend_colleges() when user_rank > 0
AppRecommendColleges ==
    \E user_rank \in UserRanks, user_category \in column(df, "category"),
       user_gender \in column(df, "gender"), user_region \in Regions,
       preferred_district \in {AllDistricts} \cup column(df, "DIST"),
       top_n \in {SliderMin, SliderMax} :
        /\ user_rank > 0
        /\ op = "idle"
        /\ op' = "app_recommend_colleges"
        /\ args' = [user_rank |-> user_rank, user_category |-> user_category,
                    user_gender |-> user_gender, user_region |-> user_region,
                    preferred_district |-> preferred_district, top_n |-> top_n]
        /\ ret' = app_recommend_colleges(df, user_rank, user_category, user_gender,
                                         user_region, preferred_district, top_n)
        /\ UNCHANGED <<df, prev>>

\* college_predictor.check_aspiration_college(df, ...)
CheckAspirationCollege ==
    \E college_name \in Names, branch_code \in Branches, user_rank \in UserRanks,
       user_category \in Categories, user_gender \in Genders :
        /\ op = "idle"
        /\ op' = "check_aspiration_college"
        /\ args' = [college_name |-> college_name, branch_code |-> branch_code,
                    user_rank |-> user_rank, user_category |-> user_category,
                    user_gender |-> user_gender]
        /\ ret' = check_aspiration_college(df, college_name, branch_code,
                                           user_rank, user_category, user_gender)
        /\ UNCHANGED <<df, prev>>

\* app.py: the college and the branch come from select boxes filled from the
\* table, the rest from the sidebar
CheckSpecificCollege ==
    \E college_name \in column(df, "name"), user_rank \in UserRanks,
       user_category \in column(df, "category"),
       user_gender \in column(df, "gender"), user_region \in Regions :
      \E branch \in column(SelectSeq(df, LAMBDA r : r.name = college_name),
                           "branch_code") :
        /\ op = "idle"
        /\ op' = "check_specific_college"
        /\ args' = [college_name |-> college_name, branch_code |-> branch,
                    user_rank |-> user_rank, user_category |-> user_category,
                    user_gender |-> user_gender, user_region |-> user_region]
        /\ ret' = check_specific_college(df, college_name, branch, user_rank,
                                         user_category, user_gender, user_region)
        /\ UNCHANGED <<df, prev>>

\* risk labels are looked up on their own as well as inside a recommendation
RiskGaps == {-1000, 0, 1, 1999, 2000, 2001, 5000, 9999, 10000, 10001, 30000, 30001}

ClassifyRisk ==
    \E rank_gap \in RiskGaps :
        /\ op = "idle"
        /\ op' = "classify_risk"
        /\ args' = [rank_gap |-> rank_gap]
        /\ ret' = classify_risk(rank_gap)
        /\ UNCHANGED <<df, prev>>

\* gaps fed to the scorer on its own: a grid over the sloping part and the
\* capped part of the score, and the gaps around each breakpoint
GapStep == 5000
ScoreGaps ==
    { k * GapStep : k \in 0..MaxGapSteps } \cup
    { -30000, -1, 1, 3529, 3530, 3540, 3780, 29999, 59940, 59999, 60001 }
ScoreUserRanks == {1, 20000}

CalculateSuitability ==
    \E user_rank \in ScoreUserRanks, rank_gap \in ScoreGaps :
        /\ op = "idle"
        /\ user_rank + rank_gap >= 1
        /\ op' = "calculate_suitability"
        /\ args' = [user_rank |-> user_rank, cutoff_rank |-> user_rank + rank_gap]
        /\ ret' = calculate_suitability(user_rank, user_rank + rank_gap)
        /\ UNCHANGED <<df, prev>>

\* the request ends; prev remembers the last score handed out, so that two
\* successive scores can be compared
Discard ==
    /\ op # "idle"
    /\ op' = "idle"
    /\ args' = NoArgs
    /\ ret' = None
    /\ prev' = IF op = "calculate_suitability"
               THEN [user_rank |-> args.user_rank, cutoff_rank |-> args.cutoff_rank,
                     score |-> ret]
               ELSE prev
    /\ UNCHANGED df

Next ==
    \/ RecommendColleges
    \/ AppRecommendColleges
    \/ CheckAspirationCollege
    \/ CheckSpecificCollege
    \/ ClassifyRisk
    \/ Discard

Spec == Init /\ [][Next]_vars

\* the scorer on its own needs no table
InitScore ==
    /\ df = << >>
    /\ op = "idle"
    /\ args = NoArgs
    /\ ret = None
    /\ prev = None

NextScore ==
    \/ CalculateSuitability
    \/ Discard

SpecScore == InitScore /\ [][NextScore]_vars

-----------------------------------------------------------------------------
(* Vocabulary of the properties *)

IsRecommend == op \in {"recommend_colleges", "app_recommend_colleges"}

IsLookup == op \in {"check_aspiration_college", "check_specific_college"}

\* the row passes every filter of the recommendation: category, gender,
\* rank, region, district and the rank-gap ceiling
PassesAll(r) ==
    /\ r.category = args.user_category
    /\ r.gender = args.user_gender
    /\ r.cutoff_rank >= args.user_rank
    /\ args.user_region = NoRegion \/ r.A_REG = args.user_region
    /\ args.preferred_district = AllDistricts \/ r.DIST = args.preferred_district
    /\ r.cutoff_rank - args.user_rank <= 30000

Passing == { j \in 1..Len(df) : PassesAll(df[j]) }

ScoreOf(j) == calculate_suitability(args.user_rank, df[j].cutoff_rank)

\* rows of the table with the requested institution, branch, category, gender
Matching ==
    { j \in 1..Len(df) :
        /\ df[j].name = args.college_name
        /\ df[j].branch_code = args.branch_code
        /\ df[j].category = args.user_category
        /\ df[j].gender = args.user_gender }

FirstMatching == CHOOSE j \in Matching : \A k \in Matching : j <= k

RiskLabel(gap) ==
    IF gap <= 2000 THEN "Ambitious" ELSE IF gap <= 10000 THEN "Moderate" ELSE "Safe"

-----------------------------------------------------------------------------
(* Properties *)

\* C1: every result of recommend_colleges is sorted: of two adjacent rows the
\* earlier has the higher or equal suitability, and on equal suitability the
\* smaller or equal rank gap (cutoff_rank - user_rank).
C1_SortedWithTieBreak ==
    IsRecommend =>
        \A i \in 1..Len(ret) - 1 :
            /\ ret[i].Suitability >= ret[i + 1].Suitability
            /\ ret[i].Suitability = ret[i + 1].Suitability =>
                  ret[i].cutoff_rank - args.user_rank
                      <= ret[i + 1].cutoff_rank - args.user_rank

\* C2: no returned row has cutoff_rank < user_rank or rank_gap > 30000; every
\* returned row is a row of the table with the query's category and gender,
\* the query's region unless that is NON-LOCAL, and the preferred district
\* unless that is All.
C2_OnlyEligibleRows ==
    /\ op = "recommend_colleges" =>
          \A i \in 1..Len(ret) :
              /\ ret[i].idx + 1 \in 1..Len(df)
              /\ \A col \in DOMAIN df[ret[i].idx + 1] :
                    ret[i][col] = df[ret[i].idx + 1][col]
              /\ ret[i].rank_gap = ret[i].cutoff_rank - args.user_rank
              /\ ret[i].cutoff_rank >= args.user_rank
              /\ ret[i].rank_gap <= 30000
              /\ ret[i].category = args.user_category
              /\ ret[i].gender = args.user_gender
              /\ args.user_region # "NON-LOCAL" => ret[i].A_REG = args.user_region
              /\ args.preferred_district # "All" =>
                    ret[i].DIST = args.preferred_district
    /\ op = "app_recommend_colleges" =>
          \A i \in 1..Len(ret) :
              \E j \in Passing :
                  /\ ret[i].name = df[j].name
                  /\ ret[i].branch_code = df[j].branch_code
                  /\ ret[i].DIST = df[j].DIST
                  /\ ret[i].cutoff_rank = df[j].cutoff_rank

\* a region and a district were asked for, a row came back, and the table
\* also holds a row of another region and a row whose cutoff the rank does
\* not clear, both of the right category and gender
W2_FilteredResult ==
    /\ op = "recommend_colleges"
    /\ args.user_region # NoRegion
    /\ args.preferred_district # AllDistricts
    /\ ret # << >>
    /\ \E j \in 1..Len(df) :
          /\ df[j].category = args.user_category
          /\ df[j].gender = args.user_gender
          /\ df[j].cutoff_rank >= args.user_rank
          /\ df[j].A_REG # args.user_region
    /\ \E j \in 1..Len(df) :
          /\ df[j].category = args.user_category
          /\ df[j].gender = args.user_gender
          /\ df[j].A_REG = args.user_region
          /\ df[j].DIST = args.preferred_district
          /\ df[j].cutoff_rank < args.user_rank

\* C3: recommend_colleges never returns more than top_n rows.
C3_AtMostTopN ==
    IsRecommend => Len(ret) <= args.top_n

\* more rows pass the filters than top_n allows, and top_n rows came back
W3_Truncated ==
    /\ op = "recommend_colleges"
    /\ Cardinality(Passing) > args.top_n
    /\ Len(ret) = args.top_n

\* C4: calculate_suitability returns exactly 0.0 when cutoff_rank < user_rank
\* and a value in [5, 95] when cutoff_rank >= user_rank.
C4_ScoreRange ==
    op = "calculate_suitability" =>
        /\ args.cutoff_rank < args.user_rank => ret = 0
        /\ args.cutoff_rank >= args.user_rank => ret >= 500 /\ ret <= 9500

\* a cutoff that is not cleared scored 0.0, then a cutoff equal to the rank
\* scored the clamped maximum
W4_BothCases ==
    /\ op = "calculate_suitability"
    /\ args.cutoff_rank = args.user_rank
    /\ ret = 9500
    /\ prev # None
    /\ prev.cutoff_rank < prev.user_rank
    /\ prev.score = 0

\* C5: for a fixed user_rank the score does not increase with the rank gap:
\* of two successive scores with gaps 0 <= gap1 < gap2, the one for gap1 is
\* the higher or equal.
C5_Monotone ==
    (/\ op = "calculate_suitability"
     /\ prev # None
     /\ prev.user_rank = args.user_rank
     /\ prev.cutoff_rank >= prev.user_rank
     /\ prev.cutoff_rank < args.cutoff_rank)
        => prev.score >= ret

\* the smaller gap lies under the clamp at 95 and the larger beyond the cap
\* of the ratio at max_gap
W5_AcrossClampAndCap ==
    /\ op = "calculate_suitability"
    /\ prev # None
    /\ prev.user_rank = args.user_rank
    /\ prev.cutoff_rank - prev.user_rank = 3529
    /\ args.cutoff_rank - args.user_rank = 60001
    /\ prev.score = 9500
    /\ ret = 1500

\* C6: classify_risk gives Ambitious up to a gap of 2000, Moderate above 2000
\* up to 10000, Safe above 10000 (so risk(0) and risk(2000) are Ambitious,
\* risk(2001) and risk(10000) Moderate, risk(10001) Safe), and every row that
\* recommend_colleges returns carries the label of its own rank_gap.
C6_RiskLabels ==
    /\ op = "classify_risk" =>
          /\ ret = RiskLabel(args.rank_gap)
          /\ args.rank_gap \in {0, 2000} => ret = "Ambitious"
          /\ args.rank_gap \in {2001, 10000} => ret = "Moderate"
          /\ args.rank_gap = 10001 => ret = "Safe"
    /\ op = "recommend_colleges" =>
          \A i \in 1..Len(ret) :
              /\ ret[i].rank_gap = ret[i].cutoff_rank - args.user_rank
              /\ ret[i].Chance = RiskLabel(ret[i].rank_gap)

\* a recommendation holding an Ambitious row (gap 0) next to a Safe one
\* (gap 30000)
W6_LabelledRows ==
    /\ op = "recommend_colleges"
    /\ \E i, k \in 1..Len(ret) :
          /\ ret[i].rank_gap = 0
          /\ ret[i].Chance = "Ambitious"
          /\ ret[k].rank_gap = 30000
          /\ ret[k].Chance = "Safe"

C8_EmptyAndAbsent ==
    /\ (IsRecommend /\ Passing = {}) => ret = << >>
    /\ (IsLookup /\ Matching = {}) => ret = None

\* rows got through category, gender, rank, region and district, and the
\* ceiling then removed every one of them
W8_CeilingEmptied ==
    /\ op = "recommend_colleges"
    /\ ret = << >>
    /\ \E j \in 1..Len(df) :
          /\ df[j].category = args.user_category
          /\ df[j].gender = args.user_gender
          /\ args.user_region = NoRegion \/ df[j].A_REG = args.user_region
          /\ args.preferred_district = AllDistricts
                \/ df[j].DIST = args.preferred_district
          /\ df[j].cutoff_rank - args.user_rank > 30000

\* C9: if k rows pass all filters, recommend_colleges returns exactly
\* min(top_n, k) rows, and no passing row with a strictly higher suitability
\* than some returned row is left out: every such score occurs in the result
\* as often as among the passing rows.
C9_BestRows ==
    IsRecommend =>
        /\ Len(ret) = Min(args.top_n, Cardinality(Passing))
        /\ \A j \in Passing :
              (\E i \in 1..Len(ret) : ret[i].Suitability < ScoreOf(j)) =>
                  Cardinality({ i \in 1..Len(ret) : ret[i].Suitability = ScoreOf(j) })
                      = Cardinality({ k \in Passing : ScoreOf(k) = ScoreOf(j) })

\* more rows pass than top_n allows, and a row of strictly lower score than
\* every returned row stands ahead of a returned row in the table
W9_LowerScoreLeftOut ==
    /\ op = "recommend_colleges"
    /\ Cardinality(Passing) > args.top_n
    /\ Len(ret) = args.top_n
    /\ \E j \in Passing :
          /\ \A i \in 1..Len(ret) : ScoreOf(j) < ret[i].Suitability
          /\ \E i \in 1..Len(ret) : j - 1 < ret[i].idx

\* C10: every row recommend_colleges returns has a suitability between 57.5
\* and 95: neither the sentinel 0.0 nor a score under 57.5 is ever returned.
C10_ScoreFloor ==
    IsRecommend =>
        \A i \in 1..Len(ret) :
            ret[i].Suitability >= 5750 /\ ret[i].Suitability <= 9500

\* a recommendation holding both ends: gap 30000 at 57.5 and gap 0 at 95
W10_BothEnds ==
    /\ op = "recommend_colleges"
    /\ \E i, k \in 1..Len(ret) :
          /\ ret[i].rank_gap = 30000
          /\ ret[i].Suitability = 5750
          /\ ret[k].rank_gap = 0
          /\ ret[k].Suitability = 9500

====
